---- MODULE Spec2Model ----
(***************************************************************************)
(* ArduinoMusicLab.ino: a rotary-encoder song menu on a character LCD and  *)
(* a playback engine that streams note commands over the serial link.      *)
(*                                                                         *)
(* The main program (setup, then loop forever) is one process whose        *)
(* position is pc; the two encoder interrupt routines PinA and PinB run    *)
(* atomically between any two steps of it.  The button library calls       *)
(* rotaryClick from inside btnRot.tick(), so a click is an input of the    *)
(* steps that call tick().                                                 *)
(***************************************************************************)
EXTENDS Integers, Sequences, FiniteSets, TLC

\* ---------------------------------------------------------------- constants

PLAY_DEBUG_MODE == 0
LCD_COL_COUNT == 16

\* note codes used in the songDataXX definitions
c == 128
d == 130
e == 132
f == 133
g == 135
a == 137
b == 139
C == 140

slaveAddr == 0
SONG_COUNT == 12
rotaryMax == SONG_COUNT - 1

\* ------------------------------------------------------------------ catalog

songTitle0 == "Scale"

songData0 ==
  <<
    c,4,d,4,e,4,f,4,g,4,a,4,b,4,C,4,0
  >>

songTempo0 == 150

songTitle1 == "Chords"

songData1 ==
  <<
    c,e,g,C,4,c,f,a,C,4,c,e,g,C,4,d,f,g,b,4,c,e,g,C,4,0
  >>

songTempo1 == 120

songTitle2 == "Do Re Mi"

songData2 ==
  <<
    c,6,d,2,e,6,c,2,e,4,c,4,e,8,d,6,e,2,f,2,f,2,e,2,d,2,f,16,e,6,f,2,g,6,e,2,g,4,e,4,g,
    8,f,6,g,2,a,2,a,2,g,2,f,2,a,16,0
  >>

songTempo2 == 150

songTitle3 == "Grieg Morning"

songData3 ==
  <<
    g,4,e,4,d,4,c,4,d,4,e,4,g,4,e,4,d,4,c,4,d,2,e,2,d,2,e,2,g,4,e,4,g,4,a,4,e,4,a,4,g,4,
    e,4,d,4,c,12,g,4,e,4,d,4,c,4,d,4,e,4,g,4,e,4,d,4,c,4,d,2,e,2,d,2,e,2,g,4,e,4,g,4,a,
    4,e,4,a,4,b,4,g,4,b,4,C,0
  >>

songTempo3 == 150

songTitle4 == "Old MacDonald"

songData4 ==
  <<
    C,4,C,4,C,4,g,4,a,4,a,4,g,8,e,4,e,4,d,4,d,4,c,12,g,4,C,4,C,4,C,4,g,4,a,4,a,4,g,8,e,
    4,e,4,d,4,d,4,c,12,g,2,g,2,C,4,C,4,C,4,g,2,g,2,C,4,C,4,C,8,C,2,C,2,C,4,C,2,C,2,C,4,
    C,2,C,2,C,2,C,2,C,4,C,4,C,4,C,4,C,4,g,4,a,4,a,4,g,8,e,4,e,4,d,4,d,4,c,12,0
  >>

songTempo4 == 200

songTitle5 == "Itsy Bitsy Spidr"

songData5 ==
  <<
    g,2,c,3,c,1,c,3,d,1,e,4,e,3,e,1,d,3,c,1,d,3,e,1,c,8,e,4,e,3,f,1,g,4,g,4,f,3,e,1,f,3,
    g,1,e,8,c,4,c,3,d,1,e,4,e,4,d,3,c,1,d,3,e,1,c,4,g,3,g,1,c,3,c,1,c,3,d,1,e,4,e,3,e,1,
    d,3,c,1,d,3,e,1,c,8,0
  >>

songTempo5 == 120

songTitle6 == "Ode to Joy"

songData6 ==
  <<
    e,4,e,4,f,4,g,4,g,4,f,4,e,4,d,4,c,4,c,4,d,4,e,4,e,6,d,2,d,8,e,4,e,4,f,4,g,4,g,4,f,4,
    e,4,d,4,c,4,c,4,d,4,e,4,d,6,c,2,c,8,d,4,d,4,e,4,c,4,d,4,e,2,f,2,e,4,c,4,d,4,e,2,f,2,
    e,4,d,4,c,4,d,4,g,8,e,4,e,4,f,4,g,4,g,4,f,4,e,4,d,4,c,4,c,4,d,4,e,4,d,6,c,2,c,8,0
  >>

songTempo6 == 160

songTitle7 == "Twinkle Star"

songData7 ==
  <<
    c,4,c,4,g,4,g,4,a,4,a,4,g,8,f,4,f,4,e,4,e,4,d,4,d,4,c,8,g,4,g,4,f,4,f,4,e,4,e,4,d,8,
    g,4,g,4,f,4,f,4,e,4,e,4,d,8,c,4,c,4,g,4,g,4,a,4,a,4,g,8,f,4,f,4,e,4,e,4,d,4,d,4,c,8,
    0
  >>

songTempo7 == 150

songTitle8 == "Water Music"

songData8 ==
  <<
    8,c,8,d,8,e,4,c,8,d,4,e,4,c,4,d,4,g,8,d,4,e,4,d,2,c,2,d,4,g,8,d,4,e,4,d,2,c,2,d,12,
    e,g,4,e,g,4,e,g,4,e,g,4,f,2,e,2,f,4,d,f,4,d,f,4,d,f,4,d,f,4,e,2,d,2,e,4,e,g,4,e,g,4,
    e,g,4,e,g,4,f,2,e,2,f,4,d,f,4,d,f,4,d,f,4,f,12,g,4,e,c,4,d,4,e,c,4,f,4,d,12,c,4,c,
    12,e,g,4,e,g,4,e,g,4,f,d,4,g,2,f,2,e,c,4,g,e,4,f,d,4,e,c,4,e,c,4,d,2,c,2,d,4,e,g,4,
    e,g,4,e,g,4,f,d,4,g,2,f,2,e,c,4,g,e,4,f,d,4,e,c,4,e,c,4,d,2,c,2,d,4,e,g,4,e,g,4,e,g,
    4,e,g,4,f,2,e,2,f,4,d,f,4,d,f,4,d,f,4,d,f,12,g,4,e,c,4,d,4,e,c,4,f,4,d,12,c,4,c,0
  >>

songTempo8 == 200

songTitle9 == "Vivaldi Spring"

songData9 ==
  <<
    12,c,4,c,e,4,c,e,4,c,e,4,d,2,c,2,e,g,12,g,2,f,2,c,e,4,c,e,4,c,e,4,d,2,c,2,e,g,12,g,
    2,f,2,c,e,4,f,2,g,2,d,f,4,c,e,4,d,12,c,4,c,e,4,c,e,4,c,e,4,d,2,c,2,e,g,12,g,2,f,2,c,
    e,4,c,e,4,c,e,4,d,2,c,2,e,g,12,g,2,f,2,c,e,4,f,2,g,2,d,f,4,c,e,4,d,12,c,4,e,g,4,f,2,
    e,2,f,4,g,4,f,a,4,e,g,8,c,4,e,g,4,f,2,e,2,f,4,g,4,f,a,4,e,g,8,c,4,f,a,4,e,g,8,f,4,e,
    4,d,2,c,2,d,8,c,12,c,4,e,g,4,f,2,e,2,f,4,g,4,f,a,4,e,g,8,c,4,e,g,4,f,2,e,2,f,4,g,4,
    f,a,4,e,g,8,c,4,f,a,4,e,g,8,f,4,e,4,d,2,c,2,d,8,c,0
  >>

songTempo9 == 180

songTitle10 == "Oh Susanna"

songData10 ==
  <<
    6,c,1,d,1,e,2,g,2,g,2,a,2,g,2,e,2,c,3,d,1,e,2,e,2,d,2,c,2,d,6,c,1,d,1,e,2,g,2,g,3,a,
    1,g,2,e,2,c,3,d,1,e,2,e,2,d,2,d,2,c,6,c,1,d,1,e,2,g,2,g,3,a,1,g,2,e,2,c,3,d,1,e,2,e,
    2,d,2,c,2,d,6,c,1,d,1,e,2,g,2,g,2,a,2,g,2,e,2,c,3,d,1,e,2,e,2,d,2,d,2,c,8,f,4,f,4,a,
    c,2,a,4,a,2,g,2,g,2,e,2,c,2,d,6,c,1,d,1,e,2,g,2,g,2,a,2,g,2,e,2,c,3,d,1,e,2,e,2,d,2,
    d,2,c,0
  >>

songTempo10 == 120

songTitle11 == "Over the River"

songData11 ==
  <<
    e,g,2,e,g,2,e,g,2,e,g,2,c,e,2,d,f,2,e,g,4,e,g,2,e,g,4,e,g,2,f,C,4,f,C,2,f,b,4,f,a,2,
    e,g,10,e,g,2,f,4,f,2,f,4,f,2,c,e,4,c,e,2,c,e,4,c,e,2,c,d,4,c,d,2,c,d,4,c,e,2,d,6,d,
    g,6,e,g,2,e,g,2,e,g,2,e,g,2,c,e,2,d,f,2,e,g,4,e,g,2,e,g,4,e,g,2,f,C,2,f,C,2,f,C,2,f,
    b,4,f,a,2,e,g,10,e,g,2,c,C,4,c,C,2,c,b,4,c,a,2,c,g,4,c,e,2,c,4,d,2,c,e,4,f,2,e,4,d,
    2,c,0
  >>

songTempo11 == 150

\* Assemble the PROGMEM variables into PROGMEM arrays (index k is entry k+1)
songTitles ==
  << songTitle0, songTitle1, songTitle2, songTitle3, songTitle4, songTitle5,
     songTitle6, songTitle7, songTitle8, songTitle9, songTitle10, songTitle11 >>

songData ==
  << songData0, songData1, songData2, songData3, songData4, songData5,
     songData6, songData7, songData8, songData9, songData10, songData11 >>

songTempos ==
  << songTempo0, songTempo1, songTempo2, songTempo3, songTempo4, songTempo5,
     songTempo6, songTempo7, songTempo8, songTempo9, songTempo10, songTempo11 >>

\* ------------------------------------------------------------------- bounds

\* interrupts the encoder raises in one behaviour of Spec
MaxIrq == 3
\* bytes before the terminator in a generated song of SpecSong
MaxBody == 3
\* largest tempo of a song of SpecPause
MaxTempo == 200

\* ---------------------------------------------------------------- variables

VARIABLES
  songPlaying,     \* byte: nonzero while a song is playing
  songDataPtr,     \* position in the data of song songIndex of the next byte read (1 = first)
  tempo,           \* int: tempo of the song being played
  songIndex,       \* int: index of the song whose title is shown and which is played
  rotaryCount,     \* volatile int: the selection index, written by the interrupts
  rotaryChanged,   \* byte: the selection changed and is not rendered yet
  rotaryDisabled,  \* byte: the interrupt routines return at once
  aFlag, bFlag,    \* volatile bytes: the edge the decoder expects next
  reading,         \* volatile byte: PIND & 0xC as last read by an interrupt routine
  PIND,            \* the encoder pins of port D (bits 2 and 3) at the last interrupt
  irqs,            \* number of interrupts raised so far
  intr,            \* what ran in the last step: "main", or the interrupt routine "A" or "B"
  called,          \* the callback the last step called: "rotaryUp", "rotaryDown",
                   \* "rotaryClick" or "none"
  prevCount,       \* rotaryCount before the last step
  lcdLine0,        \* text of LCD row 0
  lcdLine1,        \* text of LCD row 1
  serial,          \* characters written to Serial since the last playback began
  sent,            \* pdata of the sendMotorShieldCommand calls since the last playback began
  paused,          \* num16ths of the pause() calls since the last playback began
  cancelledBefore, \* some playback has returned after a click cleared songPlaying
  num16ths,        \* parameter of pause(), as of its last call in this playback
  i, delayTicks,   \* locals of pause(): the tick counter and its bound
  waited,          \* time units spent in delay(20) by the last pause() of this playback
  pc,              \* position of the main program
  progmem          \* the flash image the program reads its songs from

playVars == <<songDataPtr, tempo>>
encVars == <<rotaryCount, rotaryChanged, aFlag, bFlag, reading>>
hwVars == <<PIND, irqs>>
lcdVars == <<lcdLine0, lcdLine1>>
outVars == <<serial, sent, paused, cancelledBefore>>
pauseVars == <<num16ths, i, delayTicks, waited>>

vars ==
  << songPlaying, songDataPtr, tempo, songIndex, rotaryCount, rotaryChanged,
     rotaryDisabled, aFlag, bFlag, reading, PIND, irqs, intr, called, prevCount,
     lcdLine0, lcdLine1,
     serial, sent, paused, cancelledBefore, num16ths, i, delayTicks, waited, pc, progmem >>

\* ------------------------------------------------------------ integer types

ToByte(x) == x % 256

\* conversion to the 16-bit int of the target
ToInt(x) == LET m == x % 65536 IN IF m >= 32768 THEN m - 65536 ELSE m

\* x / t in unsigned long, for an unsigned long x below 2^31 and an int t: a
\* negative t converts to 2^32 + t, which is above x (t = 0 is undefined)
ULongDiv(x, t) == IF t > 0 THEN x \div t ELSE 0

\* !x on a byte
Not(x) == IF x = 0 THEN 1 ELSE 0

\* --------------------------------------------------------------- flash image

\* The image built from the source: the catalog above.
BuildImage == [build |-> TRUE, tempo |-> 0, data |-> <<>>]

\* An image whose every catalog entry is the song `data` at tempo `t`.
SongImage(t, data) == [build |-> FALSE, tempo |-> t, data |-> data]

\* pgm_read_word(&songTempos[k])
pgm_songTempo(k) == IF progmem.build THEN songTempos[k + 1] ELSE progmem.tempo

\* the data of song k: what songData[k] points to
pgm_songData(k) == IF progmem.build THEN songData[k + 1] ELSE progmem.data

\* pgm_read_byte(p) for p pointing into the data of song k
pgm_read_byte(k, p) == pgm_songData(k)[p]

\* ---------------------------------------------------------------------- LCD

RECURSIVE Spaces(_)
Spaces(n) == IF n <= 0 THEN "" ELSE " " \o Spaces(n - 1)

\* lcdPrintProgStr: the string, then blanks up to the width of the LCD
lcdPrintProgStr(str) == str \o Spaces(LCD_COL_COUNT - Len(str))

\* printSelectSong(): the text of row 0 in song selection mode
printSelectSong == "Select a Song   "

\* printSongPlaying writing the text of printSelectSong
printSongPlaying_SelectText == "Select a Song   "

\* printSongPlaying(): the text of row 0 while a song plays
printSongPlaying == "--- Playing  ---"

\* ------------------------------------------------------------------- serial

HexDigits == <<"0", "1", "2", "3", "4", "5", "6", "7",
               "8", "9", "A", "B", "C", "D", "E", "F">>

\* Serial.print(n, HEX): no leading zeros
RECURSIVE printHEX(_)
printHEX(n) ==
  IF n < 16 THEN HexDigits[n + 1]
  ELSE printHEX(n \div 16) \o HexDigits[(n % 16) + 1]

\* sendMotorShieldCommand without the '0' before a pdata below 0x10
sendMotorShieldCommand_NoPad(boardNum, pdata) ==
  "<" \o (IF boardNum < 16 THEN "0" ELSE "") \o printHEX(boardNum)
      \o printHEX(pdata) \o ">"

sendMotorShieldCommand(boardNum, pdata) ==
  "<" \o (IF boardNum < 16 THEN "0" ELSE "") \o printHEX(boardNum)
      \o (IF pdata < 16 THEN "0" ELSE "") \o printHEX(pdata) \o ">"

\* noteToMotorShieldChannel with case b returning the channel of a
noteToMotorShieldChannel_BIsA(note) ==
  CASE note = c -> 0
    [] note = d -> 1
    [] note = e -> 2
    [] note = f -> 3
    [] note = g -> 4
    [] note = a -> 5
    [] note = b -> 5
    [] note = C -> 7
    [] OTHER -> 127

\* noteToMotorShieldChannel with 0 as the value of its default case
noteToMotorShieldChannel_DefaultZero(note) ==
  CASE note = c -> 0
    [] note = d -> 1
    [] note = e -> 2
    [] note = f -> 3
    [] note = g -> 4
    [] note = a -> 5
    [] note = b -> 6
    [] note = C -> 7
    [] OTHER -> 0

noteToMotorShieldChannel(note) ==
  CASE note = c -> 0
    [] note = d -> 1
    [] note = e -> 2
    [] note = f -> 3
    [] note = g -> 4
    [] note = a -> 5
    [] note = b -> 6
    [] note = C -> 7
    [] OTHER -> 127

playNoteSerialTest(note) ==
  (CASE note = c -> "C5"
     [] note = d -> "D5"
     [] note = e -> "E5"
     [] note = f -> "F5"
     [] note = g -> "G5"
     [] note = a -> "A5"
     [] note = b -> "B5"
     [] note = C -> "C6"
     [] OTHER -> "") \o " "

\* playNote testing ch < 7 in place of ch <= 7
playNote_Below7(note) ==
  IF PLAY_DEBUG_MODE # 0 THEN <<>>
  ELSE LET ch == noteToMotorShieldChannel(note)
       IN  IF ch >= 0 /\ ch < 7 THEN <<ToByte(2 ^ ch)>> ELSE <<>>

\* playNote: the pdata of the commands it sends (none or one)
playNote(note) ==
  IF PLAY_DEBUG_MODE # 0 THEN <<>>
  ELSE LET ch == noteToMotorShieldChannel(note)
       IN  IF ch >= 0 /\ ch <= 7 THEN <<ToByte(2 ^ ch)>> ELSE <<>>

\* playNote: the characters it writes to Serial
playNoteSerial(note) ==
  IF PLAY_DEBUG_MODE # 0 THEN playNoteSerialTest(note)
  ELSE IF playNote(note) = <<>> THEN ""
  ELSE sendMotorShieldCommand(slaveAddr, playNote(note)[1])

\* --------------------------------------------------------- playback engine

\* processSongData testing dataVal >= C in place of dataVal > C
processSongData_HighCEnds(dataVal, playing) ==
  IF dataVal = 0 THEN 0
  ELSE IF dataVal >= C THEN 0
  ELSE IF playing = 0 THEN 0
  ELSE 1

\* processSongData without the test dataVal > C
processSongData_NoUpperTest(dataVal, playing) ==
  IF dataVal = 0 THEN 0
  ELSE IF playing = 0 THEN 0
  ELSE 1

\* the value processSongData returns
processSongData(dataVal, playing) ==
  IF dataVal = 0 THEN 0
  ELSE IF dataVal > C THEN 0
  ELSE IF playing = 0 THEN 0
  ELSE 1

\* processSongData: if (dataVal >= c) playNote(dataVal);
IsNote(dataVal) == dataVal >= c

\* the pause test with 0x7F as its bound in place of c
IsPause_Below7F(dataVal) == dataVal < 127

\* processSongData: if (dataVal < c) pause(dataVal);
IsPause(dataVal) == dataVal < c

\* pauseDelayTicks without the cast: the product computed in 16-bit int
pauseDelayTicks_IntProduct(n, t) ==
  ToInt(ULongDiv(ToInt(ToInt(n * 120) * 125) % 65536, t) \div 20)

\* pause: int delayTicks = (unsigned long)num16ths * 120 * 125 / tempo / 20
pauseDelayTicks(n, t) ==
  ToInt(ULongDiv(n * 120 * 125, t) \div 20)

\* rotaryClick setting the flag in place of toggling it
rotaryClick_Sets(playing) == 1

\* rotaryClick
rotaryClick(playing) == Not(playing)

\* btnRot.tick(): calls rotaryClick when it detects a click
btnRotTick(click, playing) == IF click THEN rotaryClick(playing) ELSE playing

\* ------------------------------------------------------- the main program

\* the record of a step: what ran and which callback it called
Traced(routine, callback) ==
  /\ intr' = routine
  /\ called' = callback
  /\ prevCount' = rotaryCount

\* loop(): if (songPlaying) playSelectedSong();
Loop469 ==
  /\ pc = "loop469"
  /\ Traced("main", "none")
  /\ pc' = IF songPlaying # 0 THEN "play481" ELSE "loop470"
  /\ UNCHANGED <<songPlaying, playVars, songIndex, encVars, rotaryDisabled,
                 hwVars, lcdVars, outVars, pauseVars, progmem>>

\* playSelectedSong(): rotaryDisabled = 1;
Play481 ==
  /\ pc = "play481"
  /\ Traced("main", "none")
  /\ rotaryDisabled' = 1
  /\ pc' = "play482"
  /\ UNCHANGED <<songPlaying, playVars, songIndex, encVars, hwVars, lcdVars,
                 outVars, pauseVars, progmem>>

\* Play482 without songDataPtr = ...: the cursor stays where it was
Play482_KeepsCursor ==
  /\ pc = "play482"
  /\ Traced("main", "none")
  /\ lcdLine0' = printSongPlaying
  /\ tempo' = pgm_songTempo(songIndex)
  /\ UNCHANGED songDataPtr
  /\ serial' = ""
  /\ sent' = <<>>
  /\ paused' = <<>>
  /\ pc' = "play485"
  /\ UNCHANGED <<songPlaying, songIndex, encVars, rotaryDisabled, hwVars,
                 lcdLine1, cancelledBefore, pauseVars, progmem>>

\* Play482 reading the tempo at rotaryCount in place of songIndex
Play482_TempoAtRotaryCount ==
  /\ pc = "play482"
  /\ Traced("main", "none")
  /\ lcdLine0' = printSongPlaying
  /\ tempo' = pgm_songTempo(rotaryCount)
  /\ songDataPtr' = 1
  /\ serial' = ""
  /\ sent' = <<>>
  /\ paused' = <<>>
  /\ pc' = "play485"
  /\ UNCHANGED <<songPlaying, songIndex, encVars, rotaryDisabled, hwVars,
                 lcdLine1, cancelledBefore, pauseVars, progmem>>

\* playSelectedSong(): printSongPlaying(); tempo = ...; songDataPtr = ...;
Play482 ==
  /\ pc = "play482"
  /\ Traced("main", "none")
  /\ lcdLine0' = printSongPlaying
  /\ tempo' = pgm_songTempo(songIndex)
  /\ songDataPtr' = 1
  /\ serial' = ""
  /\ sent' = <<>>
  /\ paused' = <<>>
  /\ pc' = "play485"
  /\ UNCHANGED <<songPlaying, songIndex, encVars, rotaryDisabled, hwVars,
                 lcdLine1, cancelledBefore, pauseVars, progmem>>

\* Play485 with a btnRot.tick() in every turn of the playback loop
Play485_TicksButton ==
  /\ pc = "play485"
  /\ \E click \in BOOLEAN :
       /\ songPlaying' = btnRotTick(click, songPlaying)
       /\ Traced("main", IF click THEN "rotaryClick" ELSE "none")
  /\ LET dataVal == pgm_read_byte(songIndex, songDataPtr)
     IN  /\ songDataPtr' = songDataPtr + 1
         /\ IF processSongData(dataVal, songPlaying) = 0
            THEN /\ pc' = "play486"
                 /\ UNCHANGED <<outVars, pauseVars>>
            ELSE /\ serial' = IF IsNote(dataVal)
                               THEN serial \o playNoteSerial(dataVal) ELSE serial
                 /\ sent' = IF IsNote(dataVal)
                             THEN sent \o playNote(dataVal) ELSE sent
                 /\ IF IsPause(dataVal)
                    THEN /\ num16ths' = dataVal
                         /\ paused' = Append(paused, dataVal)
                         /\ pc' = "pause516"
                    ELSE /\ pc' = "play485"
                         /\ UNCHANGED <<num16ths, paused>>
                 /\ UNCHANGED <<i, delayTicks, waited, cancelledBefore>>
  /\ UNCHANGED <<tempo, songIndex, encVars, rotaryDisabled, hwVars,
                 lcdVars, progmem>>

\* playSelectedSong(): one turn of while (processSongData(pgm_read_byte(songDataPtr++)));
\* with processSongData up to its return or, for a pause byte, up to the call of pause
Play485 ==
  /\ pc = "play485"
  /\ Traced("main", "none")
  /\ LET dataVal == pgm_read_byte(songIndex, songDataPtr)
     IN  /\ songDataPtr' = songDataPtr + 1
         /\ IF processSongData(dataVal, songPlaying) = 0
            THEN /\ pc' = "play486"
                 /\ UNCHANGED <<outVars, pauseVars>>
            ELSE /\ serial' = IF IsNote(dataVal)
                               THEN serial \o playNoteSerial(dataVal) ELSE serial
                 /\ sent' = IF IsNote(dataVal)
                             THEN sent \o playNote(dataVal) ELSE sent
                 /\ IF IsPause(dataVal)
                    THEN /\ num16ths' = dataVal
                         /\ paused' = Append(paused, dataVal)
                         /\ pc' = "pause516"
                    ELSE /\ pc' = "play485"
                         /\ UNCHANGED <<num16ths, paused>>
                 /\ UNCHANGED <<i, delayTicks, waited, cancelledBefore>>
  /\ UNCHANGED <<songPlaying, tempo, songIndex, encVars, rotaryDisabled, hwVars,
                 lcdVars, progmem>>

\* pause(): int delayTicks = ...; i = 0; and the first loop test
Pause516 ==
  /\ pc = "pause516"
  /\ Traced("main", "none")
  /\ delayTicks' = pauseDelayTicks(num16ths, tempo)
  /\ i' = 0
  /\ waited' = 0
  /\ pc' = IF 0 < delayTicks' THEN "pause519" ELSE "play485"
  /\ UNCHANGED <<songPlaying, playVars, songIndex, encVars, rotaryDisabled,
                 hwVars, lcdVars, outVars, num16ths, progmem>>

\* Pause519 without if (!songPlaying) return;
Pause519_NoCheck ==
  /\ pc = "pause519"
  /\ \E click \in BOOLEAN :
       /\ songPlaying' = btnRotTick(click, songPlaying)
       /\ Traced("main", IF click THEN "rotaryClick" ELSE "none")
       /\ waited' = waited + 20
       /\ i' = i + 1
       /\ pc' = IF i + 1 < delayTicks THEN "pause519" ELSE "play485"
  /\ UNCHANGED <<playVars, songIndex, encVars, rotaryDisabled, hwVars, lcdVars,
                 outVars, num16ths, delayTicks, progmem>>

\* pause(): one turn of the tick loop: btnRot.tick(); delay(20);
\* if (!songPlaying) return; i++ and the loop test
Pause519 ==
  /\ pc = "pause519"
  /\ \E click \in BOOLEAN :
       /\ songPlaying' = btnRotTick(click, songPlaying)
       /\ Traced("main", IF click THEN "rotaryClick" ELSE "none")
       /\ waited' = waited + 20
       /\ IF songPlaying' = 0
          THEN /\ pc' = "play485"
               /\ UNCHANGED i
          ELSE /\ i' = i + 1
               /\ pc' = IF i + 1 < delayTicks THEN "pause519" ELSE "play485"
  /\ UNCHANGED <<playVars, songIndex, encVars, rotaryDisabled, hwVars, lcdVars,
                 outVars, num16ths, delayTicks, progmem>>

\* Play486 without songPlaying = 0
Play486_KeepsFlag ==
  /\ pc = "play486"
  /\ Traced("main", "none")
  /\ UNCHANGED songPlaying
  /\ serial' = serial \o "\r\n"
  /\ lcdLine0' = printSelectSong
  /\ rotaryDisabled' = 0
  /\ num16ths' = 0
  /\ i' = 0
  /\ delayTicks' = 0
  /\ waited' = 0
  /\ cancelledBefore' = (cancelledBefore \/ songPlaying = 0)
  /\ pc' = "loop470"
  /\ UNCHANGED <<playVars, songIndex, encVars, hwVars, lcdLine1, sent, paused,
                 progmem>>

\* playSelectedSong(): songPlaying = 0; Serial.println(F(""));
\* printSelectSong(); rotaryDisabled = 0; and the return to loop(), where the
\* record of the playback's pauses ends
Play486 ==
  /\ pc = "play486"
  /\ Traced("main", "none")
  /\ songPlaying' = 0
  /\ serial' = serial \o "\r\n"
  /\ lcdLine0' = printSelectSong
  /\ rotaryDisabled' = 0
  /\ num16ths' = 0
  /\ i' = 0
  /\ delayTicks' = 0
  /\ waited' = 0
  /\ cancelledBefore' = (cancelledBefore \/ songPlaying = 0)
  /\ pc' = "loop470"
  /\ UNCHANGED <<playVars, songIndex, encVars, hwVars, lcdLine1, sent, paused,
                 progmem>>

\* loop(): if (rotaryChanged) printSelectedSong();
Loop470 ==
  /\ pc = "loop470"
  /\ Traced("main", "none")
  /\ pc' = IF rotaryChanged # 0 THEN "print415" ELSE "loop471"
  /\ UNCHANGED <<songPlaying, playVars, songIndex, encVars, rotaryDisabled,
                 hwVars, lcdVars, outVars, pauseVars, progmem>>

\* printSelectedSong(): songIndex = rotaryCount;
Print415 ==
  /\ pc = "print415"
  /\ Traced("main", "none")
  /\ songIndex' = rotaryCount
  /\ pc' = "print416"
  /\ UNCHANGED <<songPlaying, playVars, encVars, rotaryDisabled, hwVars,
                 lcdVars, outVars, pauseVars, progmem>>

\* printSelectedSong(): rotaryDisabled = 1;
Print416 ==
  /\ pc = "print416"
  /\ Traced("main", "none")
  /\ rotaryDisabled' = 1
  /\ pc' = "print417"
  /\ UNCHANGED <<songPlaying, playVars, songIndex, encVars, hwVars, lcdVars,
                 outVars, pauseVars, progmem>>

\* printSelectedSong(): lcd.setCursor(0, 1); lcdPrintProgStr(songTitles[songIndex]);
Print417 ==
  /\ pc = "print417"
  /\ Traced("main", "none")
  /\ lcdLine1' = lcdPrintProgStr(songTitles[songIndex + 1])
  /\ pc' = "print419"
  /\ UNCHANGED <<songPlaying, playVars, songIndex, encVars, rotaryDisabled,
                 hwVars, lcdLine0, outVars, pauseVars, progmem>>

\* printSelectedSong(): rotaryDisabled = 0;
Print419 ==
  /\ pc = "print419"
  /\ Traced("main", "none")
  /\ rotaryDisabled' = 0
  /\ pc' = "print420"
  /\ UNCHANGED <<songPlaying, playVars, songIndex, encVars, hwVars, lcdVars,
                 outVars, pauseVars, progmem>>

\* printSelectedSong(): rotaryChanged = 0;
Print420 ==
  /\ pc = "print420"
  /\ Traced("main", "none")
  /\ rotaryChanged' = 0
  /\ pc' = "loop471"
  /\ UNCHANGED <<songPlaying, playVars, songIndex, rotaryCount, aFlag, bFlag,
                 reading, rotaryDisabled, hwVars, lcdVars, outVars, pauseVars,
                 progmem>>

\* loop(): btnRot.tick(); delay(100); with the button clicked or not
Tick471(click) ==
  /\ pc = "loop471"
  /\ songPlaying' = btnRotTick(click, songPlaying)
  /\ Traced("main", IF click THEN "rotaryClick" ELSE "none")
  /\ pc' = "loop469"
  /\ UNCHANGED <<playVars, songIndex, encVars, rotaryDisabled, hwVars, lcdVars,
                 outVars, pauseVars, progmem>>

Loop471 == \E click \in BOOLEAN : Tick471(click)

\* -------------------------------------------------------- the interrupts

\* the values PIND & 0xC can take
PinLevels == {0, 4, 8, 12}

\* rotaryUp without the clamp at rotaryMax
rotaryUp_NoClamp(count) == count + 1

\* rotaryUp(): the new rotaryCount
rotaryUp(count) == IF count + 1 > rotaryMax THEN rotaryMax ELSE count + 1

\* rotaryDown(): the new rotaryCount
rotaryDown(count) == IF count - 1 < 0 THEN 0 ELSE count - 1

\* PinA without if (rotaryDisabled) return;
PinA_NoDisabledTest(r) ==
  /\ PIND' = r
  /\ reading' = r
  /\ IF r = 12 /\ aFlag # 0
     THEN /\ rotaryCount' = rotaryUp(rotaryCount)
          /\ rotaryChanged' = 1
          /\ bFlag' = 0
          /\ aFlag' = 0
          /\ Traced("A", "rotaryUp")
     ELSE IF r = 4
     THEN /\ bFlag' = 1
          /\ Traced("A", "none")
          /\ UNCHANGED <<rotaryCount, rotaryChanged, aFlag>>
     ELSE /\ Traced("A", "none")
          /\ UNCHANGED <<rotaryCount, rotaryChanged, aFlag, bFlag>>
  /\ UNCHANGED <<songPlaying, playVars, songIndex, rotaryDisabled, lcdVars,
                 outVars, pauseVars, pc, progmem>>

\* PinA copying the new rotaryCount into songIndex when it calls rotaryUp
PinA_SetsSongIndex(r) ==
  /\ PIND' = r
  /\ IF rotaryDisabled # 0
     THEN /\ Traced("A", "none")
          /\ UNCHANGED <<encVars, songIndex>>
     ELSE /\ reading' = r
          /\ IF r = 12 /\ aFlag # 0
             THEN /\ rotaryCount' = rotaryUp(rotaryCount)
                  /\ songIndex' = rotaryCount'
                  /\ rotaryChanged' = 1
                  /\ bFlag' = 0
                  /\ aFlag' = 0
                  /\ Traced("A", "rotaryUp")
             ELSE IF r = 4
             THEN /\ bFlag' = 1
                  /\ Traced("A", "none")
                  /\ UNCHANGED <<rotaryCount, rotaryChanged, aFlag, songIndex>>
             ELSE /\ Traced("A", "none")
                  /\ UNCHANGED <<rotaryCount, rotaryChanged, aFlag, bFlag, songIndex>>
  /\ UNCHANGED <<songPlaying, playVars, rotaryDisabled, lcdVars,
                 outVars, pauseVars, pc, progmem>>

\* PinA(), entered with the encoder pins at level r
PinA(r) ==
  /\ PIND' = r
  /\ IF rotaryDisabled # 0
     THEN /\ Traced("A", "none")
          /\ UNCHANGED encVars
     ELSE /\ reading' = r
          /\ IF r = 12 /\ aFlag # 0
             THEN /\ rotaryCount' = rotaryUp(rotaryCount)
                  /\ rotaryChanged' = 1
                  /\ bFlag' = 0
                  /\ aFlag' = 0
                  /\ Traced("A", "rotaryUp")
             ELSE IF r = 4
             THEN /\ bFlag' = 1
                  /\ Traced("A", "none")
                  /\ UNCHANGED <<rotaryCount, rotaryChanged, aFlag>>
             ELSE /\ Traced("A", "none")
                  /\ UNCHANGED <<rotaryCount, rotaryChanged, aFlag, bFlag>>
  /\ UNCHANGED <<songPlaying, playVars, songIndex, rotaryDisabled, lcdVars,
                 outVars, pauseVars, pc, progmem>>

\* PinB calling a rotaryDown that leaves rotaryChanged as it is
PinB_NoChangedFlag(r) ==
  /\ PIND' = r
  /\ IF rotaryDisabled # 0
     THEN /\ Traced("B", "none")
          /\ UNCHANGED encVars
     ELSE /\ reading' = r
          /\ IF r = 12 /\ bFlag # 0
             THEN /\ rotaryCount' = rotaryDown(rotaryCount)
                  /\ bFlag' = 0
                  /\ aFlag' = 0
                  /\ Traced("B", "rotaryDown")
                  /\ UNCHANGED rotaryChanged
             ELSE IF r = 8
             THEN /\ aFlag' = 1
                  /\ Traced("B", "none")
                  /\ UNCHANGED <<rotaryCount, rotaryChanged, bFlag>>
             ELSE /\ Traced("B", "none")
                  /\ UNCHANGED <<rotaryCount, rotaryChanged, aFlag, bFlag>>
  /\ UNCHANGED <<songPlaying, playVars, songIndex, rotaryDisabled, lcdVars,
                 outVars, pauseVars, pc, progmem>>

\* PinB(), entered with the encoder pins at level r
PinB(r) ==
  /\ PIND' = r
  /\ IF rotaryDisabled # 0
     THEN /\ Traced("B", "none")
          /\ UNCHANGED encVars
     ELSE /\ reading' = r
          /\ IF r = 12 /\ bFlag # 0
             THEN /\ rotaryCount' = rotaryDown(rotaryCount)
                  /\ rotaryChanged' = 1
                  /\ bFlag' = 0
                  /\ aFlag' = 0
                  /\ Traced("B", "rotaryDown")
             ELSE IF r = 8
             THEN /\ aFlag' = 1
                  /\ Traced("B", "none")
                  /\ UNCHANGED <<rotaryCount, rotaryChanged, bFlag>>
             ELSE /\ Traced("B", "none")
                  /\ UNCHANGED <<rotaryCount, rotaryChanged, aFlag, bFlag>>
  /\ UNCHANGED <<songPlaying, playVars, songIndex, rotaryDisabled, lcdVars,
                 outVars, pauseVars, pc, progmem>>

\* an interrupt on pin 2, while the budget of the behaviour lasts
IrqA ==
  /\ irqs < MaxIrq
  /\ irqs' = irqs + 1
  /\ \E r \in PinLevels : PinA(r)

\* an interrupt on pin 3, while the budget of the behaviour lasts
IrqB ==
  /\ irqs < MaxIrq
  /\ irqs' = irqs + 1
  /\ \E r \in PinLevels : PinB(r)

\* ------------------------------------------------------- specifications

\* the state when setup() has returned
Setup ==
  /\ songPlaying = 0
  /\ songDataPtr = 0
  /\ tempo = 0
  /\ songIndex = 0
  /\ rotaryCount = 0
  /\ rotaryChanged = 1
  /\ rotaryDisabled = 0
  /\ aFlag = 0
  /\ bFlag = 0
  /\ reading = 0
  /\ PIND = 12
  /\ intr = "main"
  /\ called = "none"
  /\ prevCount = 0
  /\ irqs = 0
  /\ lcdLine0 = printSelectSong
  /\ lcdLine1 = Spaces(LCD_COL_COUNT)
  /\ serial = ""
  /\ sent = <<>>
  /\ paused = <<>>
  /\ cancelledBefore = FALSE
  /\ num16ths = 0
  /\ i = 0
  /\ delayTicks = 0
  /\ waited = 0
  /\ pc = "loop469"

Init == Setup /\ progmem = BuildImage

\* the steps of the main program
Main ==
  \/ Loop469 \/ Play481 \/ Play482 \/ Play485 \/ Pause516 \/ Pause519
  \/ Play486 \/ Loop470 \/ Print415 \/ Print416 \/ Print417 \/ Print419 \/ Print420
  \/ Loop471

\* The device with the catalog of the source: the main program, and at most
\* MaxIrq encoder interrupts between its steps.
Next == Main \/ IrqA \/ IrqB

Spec == Init /\ [][Next]_vars

\* The playback engine on generated songs: every catalog entry holds the same
\* song, any bytes of SongBytes or any single byte, then the terminator 0.
\* The encoder is left alone.  The processor never stops executing the main
\* program, which is the weak fairness of Main.
SongBytes == {1, 3, c, e, 129, 255}
GenTempos == {150, 1000}

RECURSIVE Bodies(_)
Bodies(n) ==
  IF n = 0 THEN {<<>>}
  ELSE Bodies(n - 1) \cup
       {Append(s, x) : s \in {t \in Bodies(n - 1) : Len(t) = n - 1}, x \in SongBytes}

GenSongs ==
  {Append(s, 0) : s \in Bodies(MaxBody)} \cup {<<x, 0>> : x \in 0..255}

InitSong ==
  /\ Setup
  /\ progmem \in {SongImage(t, s) : t \in GenTempos, s \in GenSongs}

SpecSong == InitSong /\ [][Main]_vars /\ WF_vars(Main)

\* Song selection alone: the button is never clicked, and the encoder raises
\* any number of interrupts.
SelTick == Tick471(FALSE)

SelIrqA == (\E r \in PinLevels : PinA(r)) /\ UNCHANGED irqs

SelIrqB == (\E r \in PinLevels : PinB(r)) /\ UNCHANGED irqs

NextSel ==
  \/ Loop469 \/ Loop470 \/ Print415 \/ Print416 \/ Print417 \/ Print419
  \/ Print420 \/ SelTick \/ SelIrqA \/ SelIrqB

SpecSel == Init /\ [][NextSel]_vars

\* The computation of pause() alone: the playback of a song made of one pause
\* byte, any of 1..127, at any tempo of 1..MaxTempo, taken at the call of
\* pause(), and the one step that computes delayTicks and tests the loop.
InitPause ==
  /\ \E n \in 1..127, t \in 1..MaxTempo :
        /\ num16ths = n
        /\ paused = <<n>>
        /\ tempo = t
        /\ progmem = SongImage(t, <<n, 0>>)
  /\ songPlaying = 1
  /\ songDataPtr = 2
  /\ songIndex = 0
  /\ rotaryCount = 0
  /\ rotaryChanged = 0
  /\ rotaryDisabled = 1
  /\ aFlag = 0
  /\ bFlag = 0
  /\ reading = 0
  /\ PIND = 12
  /\ intr = "main"
  /\ called = "none"
  /\ prevCount = 0
  /\ irqs = 0
  /\ lcdLine0 = printSongPlaying
  /\ lcdLine1 = lcdPrintProgStr(songTitles[1])
  /\ serial = ""
  /\ sent = <<>>
  /\ cancelledBefore = FALSE
  /\ i = 0
  /\ delayTicks = 0
  /\ waited = 0
  /\ pc = "pause516"

SpecPause == InitPause /\ [][Pause516]_vars

\* ------------------------------------------------------------------ claims

\* the main program is inside playSelectedSong, past its first two lines
InPlayback == pc \in {"play485", "pause516", "pause519", "play486"}

\* the main program is in loop() or printSelectedSong, past line 469
InSelection ==
  pc \in {"loop470", "print415", "print416", "print417", "print419",
          "print420", "loop471"}

\* the step is one of the main program, not an interrupt
MainStep == intr' = "main"

\* the data of the song being played, and the bytes of it read so far
PlayedData == pgm_songData(songIndex)
Consumed == SubSeq(PlayedData, 1, songDataPtr - 1)

\* the byte the next turn of the playback loop reads
NextByte == PlayedData[songDataPtr]

\* the eight note codes of the encoding and the bit each one energizes
NoteCodes == {128, 130, 132, 133, 135, 137, 139, 140}
NoteMask(x) ==
  CASE x = 128 -> 1
    [] x = 130 -> 2
    [] x = 132 -> 4
    [] x = 133 -> 8
    [] x = 135 -> 16
    [] x = 137 -> 32
    [] x = 139 -> 64
    [] x = 140 -> 128

IsNoteCode(x) == x \in NoteCodes

\* one mask for each note code of the bytes s, in their order
MasksOf(s) ==
  LET notes == SelectSeq(s, IsNoteCode)
  IN  [k \in 1..Len(notes) |-> NoteMask(notes[k])]

\* byte x ends a song
IsEndOfSong(x) == x = 0 \/ x > 140

\* C1: playback always terminates: whatever the song (ending with the
\* terminator 0) and whenever the button is clicked, a call of
\* playSelectedSong eventually returns to loop() with songPlaying false.
C1_PlaybackTerminates ==
  (pc = "play481") ~> (pc = "loop470" /\ songPlaying = 0)

\* a playback has returned before the end of the data: it was cancelled, or
\* ended by a byte above the note codes
C1_Witness ==
  /\ pc = "loop470"
  /\ songPlaying = 0
  /\ serial # ""
  /\ songDataPtr <= Len(PlayedData)

\* C2: as long as a playback is not cancelled, the commands sent are exactly
\* one per note code among the bytes read so far, in their order and with the
\* mask of the note's channel, and none for a pause byte; and the playback
\* leaves its loop only at the first end-of-song byte of the data.
C2_OneCommandPerNote ==
  (InPlayback /\ songPlaying # 0) =>
     /\ sent = MasksOf(Consumed)
     /\ \A k \in 1..(songDataPtr - 2) : ~IsEndOfSong(PlayedData[k])
     /\ pc = "play486" => IsEndOfSong(PlayedData[songDataPtr - 1])

\* an uncancelled playback of two notes around a pause has reached its end
C2_Witness ==
  /\ pc = "play486"
  /\ songPlaying # 0
  /\ num16ths > 0
  /\ Len(sent) = 2
  /\ PlayedData[songDataPtr - 1] = 0

\* C3: a click that clears songPlaying in a tick of the pause loop makes pause()
\* return in that tick, after its one delay(20); the next turn of the playback
\* loop then ends the playback, with no command sent and no pause begun.
C3_CancelMidPause ==
  [][ /\ (pc = "pause519" /\ songPlaying' = 0) =>
            (pc' = "play485" /\ waited' = waited + 20 /\ i' = i)
      /\ (MainStep /\ pc = "play485" /\ songPlaying = 0) =>
            (pc' = "play486" /\ sent' = sent /\ serial' = serial
                /\ UNCHANGED pauseVars) ]_vars

\* a pause was cancelled before its last tick, and the byte after it is a note
C3_Witness ==
  /\ pc = "play485"
  /\ songPlaying = 0
  /\ called = "rotaryClick"
  /\ i + 1 < delayTicks
  /\ NextByte \in NoteCodes

\* C4: a rotation arriving while a song is playing is recorded: an interrupt
\* on pin A that finds both pins high while the decoder expects that edge
\* increments rotaryCount (clamped) and sets rotaryChanged.
C4_RotationRecordedWhilePlaying ==
  [][ (InPlayback /\ intr' = "A" /\ PIND' = 12 /\ aFlag # 0) =>
         (rotaryCount' = (IF rotaryCount = 11 THEN 11 ELSE rotaryCount + 1)
            /\ rotaryChanged' = 1) ]_vars

\* C5: rotaryCount stays in [0, SONG_COUNT-1]; rotaryUp leaves 11 at 11 and
\* otherwise adds one, rotaryDown leaves 0 at 0 and otherwise subtracts one,
\* and no other step changes it.
C5_SelectionClamped ==
  /\ rotaryCount \in 0..(SONG_COUNT - 1)
  /\ called = "rotaryUp" =>
        rotaryCount = (IF prevCount = 11 THEN 11 ELSE prevCount + 1)
  /\ called = "rotaryDown" =>
        rotaryCount = (IF prevCount = 0 THEN 0 ELSE prevCount - 1)
  /\ called \notin {"rotaryUp", "rotaryDown"} => rotaryCount = prevCount

\* rotaryUp was called at the last index
C5_Witness ==
  /\ called = "rotaryUp"
  /\ prevCount = 11
  /\ rotaryCount = 11

\* C6: a click toggles songPlaying.  In loop() the flag is clear when the
\* button is polled, so a click there sets it, and the next iteration of
\* loop() enters playSelectedSong, which loads the song at songIndex; in the
\* pause loop the flag is set, so a click there clears it.
C6_ClickToggles ==
  /\ [](InSelection => songPlaying = 0)
  /\ [](pc \in {"pause516", "pause519"} => songPlaying = 1)
  /\ [][ /\ called' = "rotaryClick" => songPlaying' = 1 - songPlaying
         /\ (pc = "loop471" /\ called' = "rotaryClick") =>
               (songPlaying' = 1 /\ pc' = "loop469")
         /\ (MainStep /\ pc = "loop469" /\ songPlaying # 0) => pc' = "play481"
         /\ (MainStep /\ pc = "play481") => pc' = "play482"
         /\ (MainStep /\ pc = "play482") =>
               (songDataPtr' = 1 /\ tempo' = songTempos[songIndex + 1]
                  /\ pc' = "play485")
         /\ (pc = "pause519" /\ called' = "rotaryClick") => songPlaying' = 0
     ]_vars

\* a click in the pause loop has cleared the flag of a playback, which a
\* click in loop() had started
C6_Witness ==
  /\ pc = "play485"
  /\ called = "rotaryClick"
  /\ songPlaying = 0

\* C7: an uncancelled playback of song 0, "Scale" at tempo 150, ends with
\* exactly the eight commands 0x01, 0x02, ..., 0x80 sent in that order, and
\* its return puts the selection text back on row 0 of the display.
C7_ScaleEndToEnd ==
  /\ [](  (pc = "play486" /\ songIndex = 0 /\ songPlaying # 0) =>
            /\ sent = <<1, 2, 4, 8, 16, 32, 64, 128>>
            /\ tempo = 150
            /\ lcdLine1 = "Scale           " )
  /\ [][ (MainStep /\ pc = "play486" /\ songIndex = 0) =>
            (pc' = "loop470" /\ lcdLine0' = "Select a Song   "
               /\ sent' = sent) ]_vars

\* the uncancelled playback of song 0 has returned to loop()
C7_Witness ==
  /\ pc = "loop470"
  /\ songIndex = 0
  /\ songDataPtr = Len(songData0) + 1
  /\ sent = <<1, 2, 4, 8, 16, 32, 64, 128>>
  /\ lcdLine0 = "Select a Song   "

\* C8: row 0 of the display shows the playing text from the entry of the
\* playback loop on, so before any command is sent, and every return of
\* playSelectedSong, after a cancellation too, puts the selection text back
\* and leaves songPlaying false.
C8_DisplayFollowsPlayback ==
  /\ [](InPlayback => lcdLine0 = "--- Playing  ---")
  /\ [](InSelection => (lcdLine0 = "Select a Song   " /\ songPlaying = 0))
  /\ [][ /\ sent' # sent => (pc = "play482" \/ lcdLine0 = "--- Playing  ---")
         /\ (MainStep /\ pc = "play486") =>
              (pc' = "loop470" /\ lcdLine0' = "Select a Song   "
                 /\ songPlaying' = 0) ]_vars

\* a cancelled playback has returned to loop() with commands sent
C8_Witness ==
  /\ pc = "loop470"
  /\ intr = "main"
  /\ songPlaying = 0
  /\ lcdLine0 = "Select a Song   "
  /\ Len(sent) > 0
  /\ songDataPtr <= Len(PlayedData)

C10_PauseBytes ==
  [][ /\ (MainStep /\ pc = "play485" /\ songPlaying # 0 /\ NextByte \in 1..127) =>
            (pc' = "pause516" /\ num16ths' = NextByte /\ sent' = sent
               /\ serial' = serial /\ songPlaying' = songPlaying)
      /\ (MainStep /\ pc \in {"pause516", "pause519"}) =>
            (pc' \in {"pause519", "play485"} /\ sent' = sent
               /\ serial' = serial /\ num16ths' = num16ths) ]_vars

\* the pause of the byte 0x7F has run all its ticks and the song plays on
C10_Witness ==
  /\ pc = "play485"
  /\ songPlaying # 0
  /\ num16ths = 127
  /\ i = delayTicks
  /\ delayTicks > 0

\* C11: the byte 0 and every byte in 0x8D..0xFF is an end of song: read by
\* the playback loop, whatever songPlaying is, it makes processSongData return
\* 0 with no command sent and no pause begun, and the playback then returns
\* to loop() with songPlaying false.
C11_EndOfSongBytes ==
  [][ /\ (MainStep /\ pc = "play485"
             /\ (NextByte = 0 \/ NextByte \in 141..255)) =>
            (pc' = "play486" /\ sent' = sent /\ serial' = serial
               /\ UNCHANGED pauseVars)
      /\ (MainStep /\ pc = "play486") =>
            (pc' = "loop470" /\ songPlaying' = 0 /\ sent' = sent) ]_vars

\* the byte 0xFF, read after a note while the song plays, has ended the loop
C11_Witness ==
  /\ pc = "play486"
  /\ songPlaying # 0
  /\ songDataPtr = 3
  /\ PlayedData[1] \in NoteCodes
  /\ PlayedData[2] = 255
  /\ Len(sent) = 1

FrameOf(mask) ==
  CASE mask = 1 -> "<0001>"
    [] mask = 2 -> "<0002>"
    [] mask = 4 -> "<0004>"
    [] mask = 8 -> "<0008>"
    [] mask = 16 -> "<0010>"
    [] mask = 32 -> "<0020>"
    [] mask = 64 -> "<0040>"
    [] mask = 128 -> "<0080>"

\* the frames of the masks s, one after the other
RECURSIVE FramesOf(_)
FramesOf(s) == IF s = <<>> THEN "" ELSE FrameOf(Head(s)) \o FramesOf(Tail(s))

\* C14: every command goes out as the frame <AABB>: '<', the address as the
\* two hex digits 00, the mask as two hex digits with a leading zero below
\* 0x10, and '>'; the frame of every one-bit mask is 6 characters long, and
\* what a playback has written to Serial is the frames of the commands sent.
C14_CommandFrame ==
  /\ \A ch \in 0..7 :
        /\ sendMotorShieldCommand(slaveAddr, 2 ^ ch) = FrameOf(2 ^ ch)
        /\ Len(sendMotorShieldCommand(slaveAddr, 2 ^ ch)) = 6
  /\ InPlayback => serial = FramesOf(sent)

\* the first five notes of "Scale" have gone out, four masks padded and one not
C14_Witness ==
  /\ InPlayback
  /\ songIndex = 0
  /\ sent = <<1, 2, 4, 8, 16>>
  /\ serial = "<0001><0002><0004><0008><0010>"

\* row 1 of the display for each song: its title on 16 columns
TitleRows ==
  << "Scale           ", "Chords          ", "Do Re Mi        ",
     "Grieg Morning   ", "Old MacDonald   ", "Itsy Bitsy Spidr",
     "Ode to Joy      ", "Twinkle Star    ", "Water Music     ",
     "Vivaldi Spring  ", "Oh Susanna      ", "Over the River  " >>

\* C15: rotaryDisabled is set all through the write of the title; an encoder
\* interrupt that finds it set returns at once, with rotaryCount,
\* rotaryChanged and the decoder's flags unchanged; and the row written is the
\* title of songIndex, the one index read at line 415, which stays as it is
\* until the write is over.
C15_TitleWriteGuarded ==
  /\ [](pc \in {"print417", "print419"} => rotaryDisabled = 1)
  /\ [](pc \in {"print419", "print420"} => lcdLine1 = TitleRows[songIndex + 1])
  /\ [][ /\ (intr' \in {"A", "B"} /\ rotaryDisabled # 0) =>
               (UNCHANGED <<rotaryCount, rotaryChanged, aFlag, bFlag, reading>>
                  /\ called' = "none")
         /\ (MainStep /\ pc = "print415") => songIndex' = rotaryCount
         /\ pc \in {"print416", "print417", "print419", "print420"} =>
               songIndex' = songIndex ]_vars

\* between the write of the title and line 419, pin A has interrupted with
\* both pins high and the decoder waiting for that edge, and has been ignored
C15_Witness ==
  /\ pc = "print419"
  /\ intr = "A"
  /\ PIND = 12
  /\ aFlag # 0
  /\ rotaryDisabled = 1
  /\ rotaryCount = songIndex
  /\ lcdLine1 = TitleRows[songIndex + 1]

\* C16: an encoder interrupt, PinA or PinB with rotaryUp or rotaryDown,
\* changes nothing of the program but rotaryCount, rotaryChanged, aFlag, bFlag
\* and reading: songPlaying, songIndex, the cursor, the tempo, rotaryDisabled,
\* the two rows of the display, what went to Serial, the record of pause()
\* and the position of the main program are as before it.
C16_InterruptFrame ==
  [][ intr' \in {"A", "B"} =>
        UNCHANGED <<songPlaying, songIndex, songDataPtr, tempo, rotaryDisabled,
                    lcdLine0, lcdLine1, serial, sent, paused, cancelledBefore,
                    num16ths, i, delayTicks, waited, pc, progmem>> ]_vars

\* after a playback that sent commands, pin A has interrupted loop() and
\* rotaryUp has moved the selection, which the display does not show yet
C16_Witness ==
  /\ intr = "A"
  /\ called = "rotaryUp"
  /\ rotaryCount = prevCount + 1
  /\ rotaryChanged = 1
  /\ songIndex = prevCount
  /\ Len(sent) > 0
  /\ InSelection

UpToEnd(s) ==
  LET n == CHOOSE k \in 1..Len(s) :
              IsEndOfSong(s[k]) /\ \A j \in 1..(k - 1) : ~IsEndOfSong(s[j])
  IN  SubSeq(s, 1, n - 1)

IsPauseCode(x) == x \in 1..127

\* the durations of the pause bytes of s, in their order
PausesOf(s) == SelectSeq(s, IsPauseCode)

\* C18: every call of playSelectedSong starts from the beginning: line 483-484
\* load the tempo of the song at songIndex and set the cursor on its first
\* byte, with nothing sent yet; so every playback that reaches the end of the
\* song uncancelled has sent the commands of all its notes and made all its
\* pauses, at the song's tempo, whether or not an earlier playback was
\* cancelled on its way.
C18_CursorReset ==
  /\ [][ (MainStep /\ pc = "play482") =>
            (songDataPtr' = 1 /\ tempo' = pgm_songTempo(songIndex)
               /\ sent' = <<>> /\ paused' = <<>> /\ pc' = "play485") ]_vars
  /\ []( (pc = "play486" /\ songPlaying # 0) =>
            /\ tempo = pgm_songTempo(songIndex)
            /\ songDataPtr = Len(UpToEnd(PlayedData)) + 2
            /\ sent = MasksOf(UpToEnd(PlayedData))
            /\ paused = PausesOf(UpToEnd(PlayedData)) )

\* after a playback that was cancelled, a playback of the same song, a note,
\* a pause and a note, has reached the end uncancelled
C18_Witness ==
  /\ pc = "play486"
  /\ songPlaying # 0
  /\ cancelledBefore
  /\ PlayedData = <<128, 3, 132, 0>>
  /\ sent = <<1, 4>>
  /\ paused = <<3>>

\* C19: no selection update is lost: whenever an iteration of loop() ends
\* with rotaryChanged = 0, the index of the title on the display, songIndex,
\* is the selection index rotaryCount, wherever the interrupts fell.
C19_NoLostUpdate ==
  (pc = "loop469" /\ intr = "main" /\ rotaryChanged = 0) =>
     songIndex = rotaryCount

\* C20: the song played is the one whose title is on the display: songIndex
\* is written only at line 415, as a copy of rotaryCount, and stays in
\* [0, SONG_COUNT-1]; all through a playback row 1 shows the title of
\* songIndex, the tempo is the tempo of songIndex and the commands sent are
\* those of the notes of the data of songIndex, whatever rotaryCount has
\* become since the title was rendered.
C20_PlaysRenderedSong ==
  /\ [](songIndex \in 0..(SONG_COUNT - 1))
  /\ []((pc \in {"play481", "play482"} \/ InPlayback) =>
           lcdLine1 = TitleRows[songIndex + 1])
  /\ [](InPlayback => tempo = songTempos[songIndex + 1])
  /\ []((InPlayback /\ songPlaying # 0) =>
           sent = MasksOf(SubSeq(songData[songIndex + 1], 1, songDataPtr - 1)))
  /\ [][ songIndex' # songIndex =>
           (MainStep /\ pc = "print415" /\ songIndex' = rotaryCount) ]_vars

\* the knob was turned to song 1 after "Scale" was rendered and before the
\* click; the playback is that of song 0
C20_Witness ==
  /\ pc = "play485"
  /\ songPlaying # 0
  /\ rotaryCount = 1
  /\ rotaryChanged = 1
  /\ songIndex = 0
  /\ lcdLine1 = "Scale           "
  /\ tempo = 150
  /\ sent = <<1, 2>>

\* C21: during a playback songPlaying changes only in a tick of the pause
\* loop, where the button is polled, and at the return of playSelectedSong;
\* a turn of the playback loop that reads a note byte leaves it as it is.  So
\* when a cancelled playback leaves its loop, the byte before the one it
\* stopped at is a pause byte, and the commands sent are those of all the
\* notes before that pause and of none after it: no run of note bytes is
\* sent in part.
C21_CancelOnlyInPause ==
  /\ [][ /\ ((pc \in {"play481", "play482"} \/ InPlayback)
                /\ songPlaying' # songPlaying) =>
               (pc \in {"pause519", "play486"})
         /\ (MainStep /\ pc = "play485" /\ NextByte \in 128..140) =>
               (songPlaying' = songPlaying /\ pc' \in {"play485", "play486"})
     ]_vars
  /\ []( (pc = "play486" /\ songPlaying = 0) =>
            /\ songDataPtr >= 3
            /\ PlayedData[songDataPtr - 2] \in 1..127
            /\ sent = MasksOf(SubSeq(PlayedData, 1, songDataPtr - 2)) )

\* a click in the pause before the chord c, e: the playback has left its loop
\* at the first note of the chord and sent neither note
C21_Witness ==
  /\ pc = "play486"
  /\ songPlaying = 0
  /\ PlayedData = <<3, 128, 132, 0>>
  /\ songDataPtr = 3
  /\ sent = <<>>

\* C22: the tempos of the catalog lie in 120..200, and for every tempo in
\* that range and every duration 1..127 the delayTicks pause() computes is the
\* value of the formula, at least 1 and within a signed 16-bit int; so pause()
\* enters its tick loop, whose first statement polls the button.
C22_CatalogPausesInRange ==
  /\ \A k \in 1..SONG_COUNT : songTempos[k] \in 120..200
  /\ (pc # "pause516" /\ tempo \in 120..200) =>
        /\ delayTicks = ((num16ths * (120 * 125)) \div tempo) \div 20
        /\ delayTicks >= 1
        /\ delayTicks <= 32767
        /\ i = 0
        /\ pc = "pause519"

\* the shortest pause at the fastest tempo of the catalog: three ticks
C22_Witness ==
  /\ pc = "pause519"
  /\ num16ths = 1
  /\ tempo = 200
  /\ delayTicks = 3

====
